---- MODULE Spec2Model ----
(***************************************************************************)
(* A model of file-and-directory-rename.py: the name normaliser            *)
(* (should_rename, get_new_name), the tree walker (collect_renames), the   *)
(* executor (rename_recursively / rename_entry), the undo engine           *)
(* (undo_renames) and the command line driver (main) with its persisted    *)
(* log file.                                                               *)
(*                                                                         *)
(* A name is a sequence of one-character strings, a path is a sequence of  *)
(* names relative to the directory given on the command line (the empty    *)
(* path is that directory).  The file system is POSIX and case sensitive:  *)
(* os.rename replaces an existing file and refuses to replace a non-empty  *)
(* directory.  The log file lives in the current working directory, which  *)
(* is taken to lie outside the tree that is renamed.                       *)
(***************************************************************************)
EXTENDS Integers, Sequences, FiniteSets, TLC

(***************************************************************************)
(* Bounds of the model.                                                    *)
(***************************************************************************)
\* longest name handed to the normaliser in NameSpec
MaxNameLen == 4
\* how often get_new_name is applied in a row in NameSpec
MaxApply == 2
\* number of entries below the root directory in Spec
MaxEntries == 3

(***************************************************************************)
(* Characters and strings.                                                 *)
(***************************************************************************)
\* One representative of every class of character the code distinguishes:
\* a lower-case letter, an upper-case letter, a digit, the space, the
\* underscore, the hyphen, the dot (os.extsep), a character outside
\* [a-zA-Z0-9.] other than these ("!") and the path separator (os.sep).
Chars == {"a", "A", "1", " ", "_", "-", ".", "!", "/"}

\* the character class [a-zA-Z0-9.] of the regular expression of line 46
Allowed == {"a", "A", "1", "."}

\* str.lower on one character
LowerChar(c) == IF c = "A" THEN "a" ELSE c

\* str.swapcase
Lower_swapcase(s) ==
  [i \in 1..Len(s) |-> IF s[i] = "A" THEN "a" ELSE IF s[i] = "a" THEN "A" ELSE s[i]]

\* str.lower
Lower(s) == [i \in 1..Len(s) |-> LowerChar(s[i])]

\* c in s
Contains(s, c) == \E i \in 1..Len(s) : s[i] = c

\* s.replace(c, d) for one-character c and d
Replace(s, c, d) == [i \in 1..Len(s) |-> IF s[i] = c THEN d ELSE s[i]]

\* s.rfind(c), 1-based; 0 when c does not occur (Python's -1)
RFind(s, c) ==
  LET hits == {i \in 1..Len(s) : s[i] = c}
  IN IF hits = {} THEN 0 ELSE CHOOSE i \in hits : \A j \in hits : j <= i

\* s.startswith(c)
StartsWith(s, c) == Len(s) >= 1 /\ s[1] = c

\* the longest prefix of s made of characters outside Allowed is dropped
RECURSIVE DropDisallowed(_)
DropDisallowed(s) ==
  IF s = <<>> \/ Head(s) \in Allowed THEN s ELSE DropDisallowed(Tail(s))

\* s.replace('--', '-'): pairs of hyphens, left to right, become one hyphen
RECURSIVE CollapsePairs(_)
CollapsePairs(s) ==
  IF Len(s) < 2 THEN s
  ELSE IF s[1] = "-" /\ s[2] = "-" THEN <<"-">> \o CollapsePairs(Tail(Tail(s)))
  ELSE <<Head(s)>> \o CollapsePairs(Tail(s))

\* the substitution of line 46 written without the "+", the runs collapsed
\* by one str.replace('--', '-') instead
ReSub_pairwise(s) ==
  CollapsePairs([i \in 1..Len(s) |-> IF s[i] \in Allowed THEN s[i] ELSE "-"])

\* re.sub(r'[^a-zA-Z0-9.]+', '-', s): every maximal run of characters
\* outside the class becomes one hyphen
RECURSIVE ReSub(_)
ReSub(s) ==
  IF s = <<>> THEN <<>>
  ELSE IF Head(s) \in Allowed THEN <<Head(s)>> \o ReSub(Tail(s))
  ELSE <<"-">> \o ReSub(DropDisallowed(Tail(s)))

\* a split at the first dot that follows a character other than a dot,
\* where os.path.splitext splits at the last
SplitExt_first_dot(p) ==
  LET sepIndex == RFind(p, "/")
      dots == {i \in (sepIndex + 1)..Len(p) :
                 p[i] = "." /\ \E k \in (sepIndex + 1)..(i - 1) : p[k] # "."}
      dotIndex == CHOOSE i \in dots : \A j \in dots : i <= j
  IN IF dots # {}
     THEN [base |-> SubSeq(p, 1, dotIndex - 1), ext |-> SubSeq(p, dotIndex, Len(p))]
     ELSE [base |-> p, ext |-> <<>>]

\* os.path.splitext (genericpath._splitext with sep "/" and extsep "."):
\* the extension starts at the last dot, provided that dot comes after the
\* last separator and some character between them is not a dot
SplitExt(p) ==
  LET sepIndex == RFind(p, "/")
      dotIndex == RFind(p, ".")
  IN IF dotIndex > sepIndex
        /\ \E k \in (sepIndex + 1)..(dotIndex - 1) : p[k] # "."
     THEN [base |-> SubSeq(p, 1, dotIndex - 1), ext |-> SubSeq(p, dotIndex, Len(p))]
     ELSE [base |-> p, ext |-> <<>>]

\* should_rename(name)
should_rename(name) ==
  Contains(name, " ") \/ Contains(name, "_") \/ name # Lower(name)

\* get_new_name(name)
get_new_name(name) ==
  LET sp == SplitExt(name)
      base1 == Replace(Replace(sp.base, " ", "-"), "_", "-")
      base2 == ReSub(base1)
  IN Lower(base2 \o sp.ext)

(***************************************************************************)
(* Paths and the file system.                                              *)
(*                                                                         *)
(* fs maps every entry id to its directory entry: the id of the directory  *)
(* that holds it (0 is the root directory), its name there and its kind.   *)
(* An id whose kind is "absent" names no entry.  os.listdir yields the     *)
(* entries of a directory in the order of their ids; Init ranges over all  *)
(* assignments of ids, so every listing order of siblings occurs.          *)
(***************************************************************************)
Ids == 1..MaxEntries

Absent == [parent |-> 0, name |-> <<>>, kind |-> "absent"]

Live(f) == {i \in Ids : f[i].kind # "absent"}

\* the entries of directory d
Children(f, d) == {i \in Live(f) : f[i].parent = d}

\* the entry called name in directory d: a set with at most one id
Lookup(f, d, name) == {i \in Children(f, d) : f[i].name = name}

\* path resolution from directory d: the set holding the id the path names,
\* empty if it names nothing.  Only directories are walked through.
RECURSIVE ResolveFrom(_, _, _)
ResolveFrom(f, d, path) ==
  IF path = <<>> THEN {d}
  ELSE LET c == Lookup(f, d, Head(path))
       IN IF c = {} THEN {}
          ELSE LET i == CHOOSE x \in c : TRUE
               IN IF Len(path) > 1 /\ f[i].kind # "dir" THEN {}
                  ELSE ResolveFrom(f, i, Tail(path))

Resolve(f, path) == ResolveFrom(f, 0, path)

\* kind of what a path names: "dir" for the root, "absent" for nothing
KindAt(f, path) ==
  LET r == Resolve(f, path)
  IN IF r = {} THEN "absent"
     ELSE IF r = {0} THEN "dir"
     ELSE f[CHOOSE x \in r : TRUE].kind

\* os.path.basename and os.path.dirname of a non-empty path
basename(path) == path[Len(path)]
dirname(path) == SubSeq(path, 1, Len(path) - 1)

\* os.path.join(directory_path, entry)
join(directory_path, entry) == Append(directory_path, entry)

\* os.path.islink and os.path.isdir, the latter asked of non-links only
islink(f, path) == KindAt(f, path) = "link"
isdir(f, path) == KindAt(f, path) = "dir"

\* ascending sequence of a finite set of numbers
RECURSIVE SortedSeq(_)
SortedSeq(S) ==
  IF S = {} THEN <<>>
  ELSE LET m == CHOOSE x \in S : \A y \in S : x <= y
       IN <<m>> \o SortedSeq(S \ {m})

\* os.listdir(directory_path): the names of the entries of the directory
listdir(f, directory_path) ==
  LET d == CHOOSE x \in Resolve(f, directory_path) : TRUE
      ids == SortedSeq(Children(f, d))
  IN [k \in 1..Len(ids) |-> f[ids[k]].name]

\* os.rename(src, dst) on a POSIX file system: [ok, fs].  It raises OSError
\* (ok is FALSE, the tree is unchanged) when src names nothing, when the
\* directory of dst does not exist, when the user may not rename src or
\* remove the entry dst names (imm: the entries the system protects, as
\* those of another owner are in a sticky directory), when a directory
\* would replace a non-directory or a non-empty directory, and when a
\* non-directory would replace a directory.  Renaming an entry to itself
\* succeeds and changes nothing; otherwise an existing dst is replaced.
\* In this program dst always lies in the directory of src.
os_rename(f, imm, src, dst) ==
  LET s == Resolve(f, src)
      dp == IF dst = <<>> THEN {} ELSE Resolve(f, dirname(dst))
      fail == [ok |-> FALSE, fs |-> f]
  IN IF s = {} \/ s = {0} \/ dp = {} THEN fail
     ELSE LET si == CHOOSE x \in s : TRUE
              di == CHOOSE x \in dp : TRUE
              t == Lookup(f, di, basename(dst))
              moved == [f EXCEPT ![si] = [parent |-> di, name |-> basename(dst),
                                          kind |-> f[si].kind]]
          IN IF di # 0 /\ f[di].kind # "dir" THEN fail
             ELSE IF t = {si} THEN [ok |-> TRUE, fs |-> f]
             ELSE IF si \in imm THEN fail
             ELSE IF t = {} THEN [ok |-> TRUE, fs |-> moved]
             ELSE LET ti == CHOOSE x \in t : TRUE
                  IN IF ti \in imm THEN fail
                     ELSE IF f[si].kind = "dir"
                             /\ (f[ti].kind # "dir" \/ Children(f, ti) # {})
                          THEN fail
                     ELSE IF f[si].kind # "dir" /\ f[ti].kind = "dir" THEN fail
                     ELSE [ok |-> TRUE, fs |-> [moved EXCEPT ![ti] = Absent]]

(***************************************************************************)
(* The tree walker.                                                        *)
(***************************************************************************)
\* is_hidden answering no for every path
is_hidden_never(file_path) == FALSE

\* is_hidden(file_path)
is_hidden(file_path) == StartsWith(basename(file_path), ".")

\* the items of the files, then those of the directories whose name
\* changes only
collect_return_changed_only(file_renames, dir_renames) ==
  LET Changes(item) == item[1] # item[2]
  IN file_renames \o SelectSeq(dir_renames, Changes)

\* the return statement with its operands exchanged
collect_return_dirs_first(file_renames, dir_renames) == dir_renames \o file_renames

\* the return statement of collect_renames: files first, then directories
collect_return(file_renames, dir_renames) == file_renames \o dir_renames

RECURSIVE collect_renames(_, _)
RECURSIVE collect_loop(_, _, _, _, _)

\* the loop of collect_renames with new_path made in the directory the
\* walk started from
RECURSIVE collect_loop_new_path_in_root(_, _, _, _, _)
collect_loop_new_path_in_root(f, directory_path, entries, file_renames, dir_renames) ==
  IF entries = <<>> THEN collect_return(file_renames, dir_renames)
  ELSE LET entry == Head(entries)
           entry_path == join(directory_path, entry)
           new_path == join(<<>>, get_new_name(entry))
           rest == Tail(entries)
       IN IF is_hidden(entry_path) \/ islink(f, entry_path)
          THEN collect_loop_new_path_in_root(f, directory_path, rest, file_renames, dir_renames)
          ELSE IF isdir(f, entry_path)
          THEN collect_loop_new_path_in_root(f, directory_path, rest,
                 file_renames \o collect_renames(f, entry_path),
                 Append(dir_renames, <<entry_path, new_path>>))
          ELSE IF should_rename(entry)
          THEN collect_loop_new_path_in_root(f, directory_path, rest,
                 Append(file_renames, <<entry_path, new_path>>), dir_renames)
          ELSE collect_loop_new_path_in_root(f, directory_path, rest, file_renames, dir_renames)

\* the loop of collect_renames over the entries still to be visited; a plan
\* item is <<old_path, new_path>>
collect_loop(f, directory_path, entries, file_renames, dir_renames) ==
  IF entries = <<>> THEN collect_return(file_renames, dir_renames)
  ELSE LET entry == Head(entries)
           entry_path == join(directory_path, entry)
           new_name == get_new_name(entry)
           new_path == join(directory_path, new_name)
       IN IF is_hidden(entry_path) \/ islink(f, entry_path)
          THEN collect_loop(f, directory_path, Tail(entries), file_renames, dir_renames)
          ELSE IF isdir(f, entry_path)
          THEN collect_loop(f, directory_path, Tail(entries),
                            file_renames \o collect_renames(f, entry_path),
                            Append(dir_renames, <<entry_path, new_path>>))
          ELSE IF should_rename(entry)
          THEN collect_loop(f, directory_path, Tail(entries),
                            Append(file_renames, <<entry_path, new_path>>), dir_renames)
          ELSE collect_loop(f, directory_path, Tail(entries), file_renames, dir_renames)

\* collect_renames(directory_path) on the file system f
collect_renames(f, directory_path) ==
  collect_loop(f, directory_path, listdir(f, directory_path), <<>>, <<>>)

(***************************************************************************)
(* The state.  One invocation of the program runs at a time; when it ends, *)
(* its local variables are gone and only the tree and the log file remain. *)
(***************************************************************************)
VARIABLES
  fs,          \* the directory tree below the root directory
  immutable,   \* ids of the entries the system refuses to rename or replace
  log_file,    \* rename_log.json: [exists, data]
  pc,          \* "idle", "renaming" (loop of line 90) or "undoing" (loop of line 106)
  dry_run,     \* args.dry_run of the invocation
  to_rename,   \* the plan of rename_recursively
  idx,         \* position of the running loop in its sequence
  rename_log,  \* the log the invocation builds (or has loaded)
  calls,       \* history: the os.rename calls of the invocation, [src, dst, ok]
  fs_pre,      \* history: the tree when the latest renaming invocation began
  last,        \* history: how the latest invocation ended
  nm,          \* NameSpec: the name under test
  sr,          \* NameSpec: "yes"/"no" once should_rename(nm) was called
  outs         \* NameSpec: results of the successive get_new_name calls

vars == <<fs, immutable, log_file, pc, dry_run, to_rename, idx, rename_log,
          calls, fs_pre, last, nm, sr, outs>>

treeVars == <<fs, immutable, log_file, pc, dry_run, to_rename, idx, rename_log,
              calls, fs_pre, last>>

nameVars == <<nm, sr, outs>>

(***************************************************************************)
(* The trees the model starts from.                                        *)
(***************************************************************************)
\* The entries a tree is built from.  Names: "A" and "A_" are renamed (to
\* "a" and "a-"), "a" is in normal form and is where "A" goes, ".A" is
\* hidden and would be renamed were it visited.
EntryKinds ==
  {[name |-> <<"A">>, kind |-> "file"],
   [name |-> <<"a">>, kind |-> "file"],
   [name |-> <<"A", "_">>, kind |-> "file"],
   [name |-> <<"A">>, kind |-> "dir"],
   [name |-> <<"a">>, kind |-> "dir"],
   [name |-> <<"A", "_">>, kind |-> "dir"],
   [name |-> <<".", "A">>, kind |-> "dir"],
   [name |-> <<"A">>, kind |-> "link"]}

\* an entry of that name and kind in directory d may be added to the
\* entries t: the directory exists and holds no entry of that name.  Ids
\* are given directory by directory (no entry of an earlier directory
\* follows), which leaves every listing order of every directory possible.
Fits(t, d, e) ==
  /\ d # 0 => t[d].kind = "dir"
  /\ t # <<>> => t[Len(t)].parent <= d
  /\ \A i \in 1..Len(t) : ~(t[i].parent = d /\ t[i].name = e.name)

RECURSIVE TreesOf(_)
TreesOf(n) ==
  IF n = 0 THEN {<<>>}
  ELSE UNION {{Append(t, [parent |-> d, name |-> e.name, kind |-> e.kind])
                 : <<d, e>> \in {x \in (0..(n - 1)) \X EntryKinds : Fits(t, x[1], x[2])}}
              : t \in TreesOf(n - 1)}

Pad(t) == [i \in Ids |-> IF i <= Len(t) THEN t[i] ELSE Absent]

Trees == {Pad(t) : t \in UNION {TreesOf(n) : n \in 0..MaxEntries}}

\* the entries the system may protect in the model: the files and
\* directories called "A".  The protection does not change while the
\* program runs.
MayBeImmutable(f) ==
  {i \in Live(f) : f[i].name = <<"A">> /\ f[i].kind \in {"file", "dir"}}

NoFile == [exists |-> FALSE, data |-> <<>>]

\* save_rename_log(rename_log): json.dump writes the pairs as 2-element arrays
save_rename_log(log) ==
  [exists |-> TRUE, data |-> [k \in 1..Len(log) |-> <<log[k][1], log[k][2]>>]]

\* load_rename_log(): the arrays of the file, or [] when there is no file
load_rename_log(file) == IF file.exists THEN file.data ELSE <<>>

Last(s) == s[Len(s)]

NameIdle == nm = <<>> /\ sr = "unset" /\ outs = <<>>

\* no invocation runs: the locals of the previous one are gone
NoLocals ==
  /\ dry_run = FALSE
  /\ to_rename = <<>>
  /\ idx = 0
  /\ rename_log = <<>>
  /\ calls = <<>>

Init ==
  /\ fs \in Trees
  /\ immutable \in SUBSET MayBeImmutable(fs)
  /\ log_file = NoFile
  /\ pc = "idle"
  /\ NoLocals
  /\ fs_pre = fs
  /\ last = "none"
  /\ NameIdle

\* the invocation ends in the way given
Exit(how) ==
  /\ pc' = "idle"
  /\ last' = how
  /\ dry_run' = FALSE
  /\ to_rename' = <<>>
  /\ idx' = 0
  /\ rename_log' = <<>>
  /\ calls' = <<>>

\* rename_entry with the pair logged as (old_path, new_path)
rename_entry_log_swapped(f, imm, old_path, new_name, dry, log) ==
  IF dry THEN [fs |-> f, rename_log |-> log, called |-> <<>>]
  ELSE LET r == os_rename(f, imm, old_path, new_name)
       IN [fs |-> r.fs,
           rename_log |-> IF r.ok THEN Append(log, <<old_path, new_name>>) ELSE log,
           called |-> <<[src |-> old_path, dst |-> new_name, ok |-> r.ok]>>]

(***************************************************************************)
(* The executor.                                                           *)
(***************************************************************************)
\* rename_entry logging the pair before it attempts the rename
rename_entry_log_first(f, imm, old_path, new_name, dry, log) ==
  IF dry THEN [fs |-> f, rename_log |-> log, called |-> <<>>]
  ELSE LET r == os_rename(f, imm, old_path, new_name)
       IN [fs |-> r.fs,
           rename_log |-> Append(log, <<new_name, old_path>>),
           called |-> <<[src |-> old_path, dst |-> new_name, ok |-> r.ok]>>]

\* rename_entry with the dry_run test left out
rename_entry_always(f, imm, old_path, new_name, dry, log) ==
  LET r == os_rename(f, imm, old_path, new_name)
  IN [fs |-> r.fs,
      rename_log |-> IF r.ok THEN Append(log, <<new_name, old_path>>) ELSE log,
      called |-> <<[src |-> old_path, dst |-> new_name, ok |-> r.ok]>>]

\* rename_entry(old_path, new_name, dry_run, rename_log, max_name_length):
\* the tree and the log it leaves, and the os.rename call it made
rename_entry(f, imm, old_path, new_name, dry, log) ==
  IF dry THEN [fs |-> f, rename_log |-> log, called |-> <<>>]
  ELSE LET r == os_rename(f, imm, old_path, new_name)
       IN [fs |-> r.fs,
           rename_log |-> IF r.ok THEN Append(log, <<new_name, old_path>>) ELSE log,
           called |-> <<[src |-> old_path, dst |-> new_name, ok |-> r.ok]>>]

\* main without --undo, up to the loop of rename_recursively: the plan is
\* collected; max() of line 88 raises ValueError on an empty plan, which
\* ends the invocation before save_rename_log
MainRun ==
  /\ pc = "idle"
  /\ fs_pre' = fs
  /\ \E d \in BOOLEAN :
       LET plan == collect_renames(fs, <<>>)
       IN IF plan = <<>>
          THEN Exit("error")
          ELSE /\ pc' = "renaming"
               /\ dry_run' = d
               /\ to_rename' = plan
               /\ idx' = 1
               /\ rename_log' = <<>>
               /\ calls' = <<>>
               /\ last' = last
  /\ UNCHANGED <<fs, immutable, log_file>>
  /\ UNCHANGED nameVars

\* one round of the loop of rename_recursively that lets an OSError escape
RenameEntryAbort ==
  /\ pc = "renaming"
  /\ idx <= Len(to_rename)
  /\ LET r == rename_entry(fs, immutable, to_rename[idx][1], to_rename[idx][2],
                           dry_run, rename_log)
     IN /\ fs' = r.fs
        /\ IF r.called # <<>> /\ ~r.called[1].ok
           THEN Exit("error")
           ELSE /\ rename_log' = r.rename_log
                /\ calls' = calls \o r.called
                /\ idx' = idx + 1
                /\ UNCHANGED <<pc, dry_run, to_rename, last>>
  /\ UNCHANGED <<immutable, log_file, fs_pre>>
  /\ UNCHANGED nameVars

\* one round of the loop of rename_recursively
RenameEntry ==
  /\ pc = "renaming"
  /\ idx <= Len(to_rename)
  /\ LET r == rename_entry(fs, immutable, to_rename[idx][1], to_rename[idx][2],
                           dry_run, rename_log)
     IN /\ fs' = r.fs
        /\ rename_log' = r.rename_log
        /\ calls' = calls \o r.called
  /\ idx' = idx + 1
  /\ UNCHANGED <<immutable, log_file, pc, dry_run, to_rename, fs_pre, last>>
  /\ UNCHANGED nameVars

\* rename_recursively returns its log, main saves it and the process ends
RunReturn ==
  /\ pc = "renaming"
  /\ idx > Len(to_rename)
  /\ log_file' = save_rename_log(rename_log)
  /\ Exit(IF dry_run THEN "dry" ELSE "run")
  /\ UNCHANGED <<fs, immutable, fs_pre>>
  /\ UNCHANGED nameVars

(***************************************************************************)
(* The undo engine.                                                        *)
(***************************************************************************)
\* the log in its own order
not_reversed(log) == log

\* reversed(rename_log)
reversed(log) == [k \in 1..Len(log) |-> log[Len(log) + 1 - k]]

\* main with --undo, up to the loop of undo_renames: the log is loaded; an
\* empty log ends the invocation
MainUndo ==
  /\ pc = "idle"
  /\ LET log == load_rename_log(log_file)
     IN IF log = <<>>
        THEN Exit("undo")
        ELSE /\ pc' = "undoing"
             /\ rename_log' = log
             /\ idx' = 1
             /\ UNCHANGED <<dry_run, to_rename, calls, last>>
  /\ UNCHANGED <<fs, immutable, log_file, fs_pre>>
  /\ UNCHANGED nameVars

\* one round of the loop of undo_renames that lets an OSError escape
UndoEntryAbort ==
  /\ pc = "undoing"
  /\ idx <= Len(rename_log)
  /\ LET e == reversed(rename_log)[idx]
         r == os_rename(fs, immutable, e[1], e[2])
     IN /\ fs' = r.fs
        /\ IF r.ok
           THEN /\ calls' = Append(calls, [src |-> e[1], dst |-> e[2], ok |-> r.ok])
                /\ idx' = idx + 1
                /\ UNCHANGED <<pc, dry_run, to_rename, rename_log, last>>
           ELSE Exit("error")
  /\ UNCHANGED <<immutable, log_file, fs_pre>>
  /\ UNCHANGED nameVars

\* one round of the loop of undo_renames
UndoEntry ==
  /\ pc = "undoing"
  /\ idx <= Len(rename_log)
  /\ LET e == reversed(rename_log)[idx]
         r == os_rename(fs, immutable, e[1], e[2])
     IN /\ fs' = r.fs
        /\ calls' = Append(calls, [src |-> e[1], dst |-> e[2], ok |-> r.ok])
  /\ idx' = idx + 1
  /\ UNCHANGED <<immutable, log_file, pc, dry_run, to_rename, rename_log, fs_pre, last>>
  /\ UNCHANGED nameVars

\* undo_renames returns and the process ends
UndoReturn ==
  /\ pc = "undoing"
  /\ idx > Len(rename_log)
  /\ Exit("undo")
  /\ UNCHANGED <<fs, immutable, log_file, fs_pre>>
  /\ UNCHANGED nameVars

Next == MainRun \/ RenameEntry \/ RunReturn \/ MainUndo \/ UndoEntry \/ UndoReturn

Spec == Init /\ [][Next]_vars

(***************************************************************************)
(* The normaliser on its own: a name is drawn, should_rename is called on  *)
(* it and get_new_name is applied to it and then to its own result.        *)
(***************************************************************************)
Names == UNION {[1..n -> Chars] : n \in 0..MaxNameLen}

NameInit ==
  /\ nm \in Names
  /\ sr = "unset"
  /\ outs = <<>>
  /\ fs = [i \in Ids |-> Absent]
  /\ immutable = {}
  /\ log_file = NoFile
  /\ pc = "idle"
  /\ NoLocals
  /\ fs_pre = fs
  /\ last = "none"

CallShouldRename ==
  /\ sr = "unset"
  /\ sr' = IF should_rename(nm) THEN "yes" ELSE "no"
  /\ UNCHANGED <<nm, outs>>
  /\ UNCHANGED treeVars

CallGetNewName ==
  /\ Len(outs) < MaxApply
  /\ outs' = Append(outs, get_new_name(IF outs = <<>> THEN nm ELSE Last(outs)))
  /\ UNCHANGED <<nm, sr>>
  /\ UNCHANGED treeVars

NameNext == CallShouldRename \/ CallGetNewName

NameSpec == NameInit /\ [][NameNext]_vars

(***************************************************************************)
(* Properties of the program, checked under Spec.                          *)
(***************************************************************************)
\* p is a proper prefix of q: q lies beneath p
IsProperPrefix(p, q) == Len(p) < Len(q) /\ SubSeq(q, 1, Len(p)) = p

\* s is a prefix of t
IsPrefix(s, t) == Len(s) <= Len(t) /\ SubSeq(t, 1, Len(s)) = s

\* the directories above a path, the root excluded
Ancestors(path) == {SubSeq(path, 1, n) : n \in 1..(Len(path) - 1)}

\* no two items of the plan collide on the tree f: no new_path is the path
\* of another entry, or the new_path of another item
NoCollision(f, plan) ==
  /\ \A i \in 1..Len(plan) : plan[i][2] # plan[i][1] => Resolve(f, plan[i][2]) = {}
  /\ \A i, j \in 1..Len(plan) : i # j => plan[i][2] # plan[j][2]

\* the pairs a log holds after the calls c: those of the calls that succeeded
RECURSIVE SuccessLog(_)
SuccessLog(c) ==
  IF c = <<>> THEN <<>>
  ELSE (IF c[1].ok THEN <<(<<c[1].dst, c[1].src>>)>> ELSE <<>>) \o SuccessLog(Tail(c))

\* entry i is hidden or a link, or lies beneath such an entry
RECURSIVE Skipped(_, _)
Skipped(f, i) ==
  \/ StartsWith(f[i].name, ".")
  \/ f[i].kind = "link"
  \/ f[i].parent # 0 /\ Skipped(f, f[i].parent)

\* the running invocation is a real run whose loop has ended
RunDone == pc = "renaming" /\ ~dry_run /\ idx > Len(to_rename)

\* the running invocation is an undo, of the log of the real run that came
\* right before it, and its loop has ended
UndoDone == pc = "undoing" /\ idx > Len(rename_log)

\* C1: round trip: when a real run whose plan has no collision is followed
\* by the undo of the log it returned, the tree after the undo is the tree
\* before the run.
C1_RoundTrip ==
  (UndoDone /\ last = "run" /\ NoCollision(fs_pre, collect_renames(fs_pre, <<>>)))
    => fs = fs_pre

\* C1 witness: such an undo has ended; the run had renamed a directory and
\* an entry inside it.
C1_Witness ==
  /\ UndoDone
  /\ last = "run"
  /\ NoCollision(fs_pre, collect_renames(fs_pre, <<>>))
  /\ \E i, j \in 1..Len(rename_log) :
       /\ IsProperPrefix(rename_log[j][2], rename_log[i][2])
       /\ rename_log[i][1] # rename_log[i][2]
       /\ rename_log[j][1] # rename_log[j][2]
  /\ \A k \in 1..Len(calls) : calls[k].ok

\* C2: in the plan every file item comes before the item of each directory
\* above the file; so when a real run without collisions reaches a file
\* item, the file and the directories above it are where they were when
\* the plan was made.
C2_FilesBeforeAncestors ==
  pc = "renaming" =>
    /\ \A i \in 1..Len(to_rename) :
         KindAt(fs_pre, to_rename[i][1]) = "file" =>
           \A d \in Ancestors(to_rename[i][1]) :
             \E j \in (i + 1)..Len(to_rename) :
               /\ to_rename[j][1] = d
               /\ \A k \in 1..i : to_rename[k][1] # d
    /\ (/\ ~dry_run
        /\ idx <= Len(to_rename)
        /\ KindAt(fs_pre, to_rename[idx][1]) = "file"
        /\ NoCollision(fs_pre, to_rename))
       => /\ Resolve(fs, to_rename[idx][1]) # {}
          /\ Resolve(fs, to_rename[idx][1]) = Resolve(fs_pre, to_rename[idx][1])
          /\ \A d \in Ancestors(to_rename[idx][1]) :
               Resolve(fs, d) # {} /\ Resolve(fs, d) = Resolve(fs_pre, d)

\* C2 witness: a real run without collisions is at the item of a file that
\* lies in a directory, after a rename that succeeded.
C2_Witness ==
  /\ pc = "renaming"
  /\ ~dry_run
  /\ idx <= Len(to_rename)
  /\ idx >= 2
  /\ KindAt(fs_pre, to_rename[idx][1]) = "file"
  /\ Len(to_rename[idx][1]) >= 2
  /\ NoCollision(fs_pre, to_rename)
  /\ calls[idx - 1].ok
  /\ calls[idx - 1].src # calls[idx - 1].dst

\* C3: a dry run makes no os.rename call, leaves the tree as it was and its
\* log empty.
C3_DryRunNoEffect ==
  (pc = "renaming" /\ dry_run) => (fs = fs_pre /\ calls = <<>> /\ rename_log = <<>>)

\* C3 witness: the loop of a dry run has ended, over a plan of two items or
\* more with an item that changes a name.
C3_Witness ==
  /\ pc = "renaming"
  /\ dry_run
  /\ idx > Len(to_rename)
  /\ Len(to_rename) >= 2
  /\ \E i \in 1..Len(to_rename) : to_rename[i][1] # to_rename[i][2]

\* C4: a real run attempts every item of the plan once, in the order of the
\* plan, whether or not earlier attempts failed, and then returns its log,
\* which main saves.
C4_EveryItemAttempted ==
  /\ []((pc = "renaming" /\ ~dry_run) =>
          /\ Len(calls) = idx - 1
          /\ \A k \in 1..Len(calls) :
               calls[k].src = to_rename[k][1] /\ calls[k].dst = to_rename[k][2])
  /\ [][(pc = "renaming" /\ ~dry_run) =>
          IF idx <= Len(to_rename)
          THEN pc' = "renaming" /\ idx' = idx + 1 /\ to_rename' = to_rename
          ELSE pc' = "idle" /\ last' = "run" /\ log_file'.data = rename_log]_vars

\* C4 witness: the loop of a real run has ended; an attempt failed and a
\* later one succeeded.
C4_Witness ==
  /\ RunDone
  /\ \E k, m \in 1..Len(calls) :
       k < m /\ ~calls[k].ok /\ calls[m].ok /\ calls[m].src # calls[m].dst

\* C5: throughout a real run the log holds the (new_path, old_path) pairs of
\* the renames that have succeeded, in the order they were made, and it
\* only grows.
C5_LogIsSuccesses ==
  /\ []((pc = "renaming" /\ ~dry_run) => rename_log = SuccessLog(calls))
  /\ [][(pc = "renaming" /\ pc' = "renaming") => IsPrefix(rename_log, rename_log')]_vars

\* C5 witness: in a real run a rename has failed and a later one has
\* succeeded and is in the log.
C5_Witness ==
  /\ pc = "renaming"
  /\ ~dry_run
  /\ rename_log # <<>>
  /\ \E k, m \in 1..Len(calls) : k < m /\ ~calls[k].ok /\ calls[m].ok

\* C6: undo attempts new_path -> old_path for every entry of the log once,
\* the entry logged last first, whether or not earlier attempts failed.
C6_UndoReverse ==
  /\ [](pc = "undoing" =>
          /\ Len(calls) = idx - 1
          /\ \A k \in 1..Len(calls) :
               /\ calls[k].src = rename_log[Len(rename_log) + 1 - k][1]
               /\ calls[k].dst = rename_log[Len(rename_log) + 1 - k][2])
  /\ [][pc = "undoing" =>
          IF idx <= Len(rename_log)
          THEN pc' = "undoing" /\ idx' = idx + 1 /\ rename_log' = rename_log
          ELSE pc' = "idle" /\ last' = "undo"]_vars

\* C6 witness: the loop of an undo has ended on a log of two different
\* entries or more; an attempt failed and a later one succeeded.
C6_Witness ==
  /\ UndoDone
  /\ Len(rename_log) >= 2
  /\ rename_log[1] # rename_log[2]
  /\ \E k, m \in 1..Len(calls) : k < m /\ ~calls[k].ok /\ calls[m].ok

\* C7: no item of the plan is, or lies beneath, a hidden entry or a link;
\* and a run leaves the directory entry of every such entry as it is.
C7_NoHiddenNoLink ==
  /\ [](pc = "renaming" =>
          \A i \in 1..Len(to_rename) :
            \A n \in 1..Len(to_rename[i][1]) :
              LET p == SubSeq(to_rename[i][1], 1, n)
              IN ~StartsWith(basename(p), ".") /\ KindAt(fs_pre, p) # "link")
  /\ [][pc = "renaming" =>
          \A i \in Live(fs) : Skipped(fs, i) => fs'[i] = fs[i]]_vars

\* C7 witness: the loop of a real run has ended with a rename made, in a
\* tree that holds a hidden entry and a link whose names would be changed.
C7_Witness ==
  /\ RunDone
  /\ \E k \in 1..Len(calls) : calls[k].ok /\ calls[k].src # calls[k].dst
  /\ \E i, j \in Live(fs) :
       /\ StartsWith(fs[i].name, ".") /\ should_rename(fs[i].name)
       /\ fs[j].kind = "link" /\ should_rename(fs[j].name)

\* C8: when the plan is empty, rename_recursively completes without raising
\* an error: no invocation ends by an error.
C8_EmptyPlanCompletes == ~(pc = "idle" /\ last = "error")

(***************************************************************************)
(* Properties of the normaliser, checked under NameSpec.                   *)
(***************************************************************************)
\* C9: should_rename and get_new_name are consistent: a name for which
\* should_rename is false is returned unchanged by get_new_name.  (Stated
\* for the names a directory can hold, those without a separator.)
C9_Consistent ==
  (sr = "no" /\ outs # <<>> /\ ~Contains(nm, "/")) => outs[1] = nm

\* C10: get_new_name is idempotent: applied to its own result it returns
\* that result.
C10_Idempotent == \A k \in 2..Len(outs) : outs[k] = outs[k - 1]

\* C10 witness: get_new_name was applied twice to a name with a leading
\* dot, a second dot and an underscore in its extension, which it changed.
C10_Witness ==
  /\ Len(outs) >= 2
  /\ outs[1] # nm
  /\ StartsWith(nm, ".")
  /\ Contains(SplitExt(nm).ext, "_")

\* the number of dots a name starts with
RECURSIVE LeadingDots(_)
LeadingDots(s) ==
  IF s # <<>> /\ Head(s) = "." THEN 1 + LeadingDots(Tail(s)) ELSE 0

\* the reference split: at the last dot, unless the name has no dot or
\* only leading dots
RefSplitAt(name) ==
  LET dots == {i \in 1..Len(name) : name[i] = "."}
      last_dot == CHOOSE i \in dots : \A j \in dots : j <= i
  IN IF dots = {} \/ dots = 1..LeadingDots(name) THEN Len(name) + 1 ELSE last_dot

\* the reference base: spaces and underscores become hyphens, then of every
\* maximal run of characters outside [A-Za-z0-9.] only one hyphen is kept
RefBase(base) ==
  LET b == [i \in 1..Len(base) |-> IF base[i] \in {" ", "_"} THEN "-" ELSE base[i]]
      kept == {i \in 1..Len(b) : b[i] \in Allowed \/ i = 1 \/ b[i - 1] \in Allowed}
      at == SortedSeq(kept)
  IN [k \in 1..Len(at) |-> IF b[at[k]] \in Allowed THEN b[at[k]] ELSE "-"]

\* the reference result for a name
RefNewName(name) ==
  LET cut == RefSplitAt(name)
      whole == RefBase(SubSeq(name, 1, cut - 1)) \o SubSeq(name, cut, Len(name))
  IN [i \in 1..Len(whole) |-> IF whole[i] = "A" THEN "a" ELSE whole[i]]

\* "My File_Name.TXT" and "my-file-name.txt", letter for letter in the
\* letters of Chars (upper case "A", lower case "a")
ExampleName ==
  <<"A", "a", " ", "A", "a", "a", "a", "_", "A", "a", "a", "a", ".", "A", "A", "A">>

ExampleNewName ==
  <<"a", "a", "-", "a", "a", "a", "a", "-", "a", "a", "a", "a", ".", "a", "a", "a">>

RECURSIVE PathOf(_, _)
PathOf(f, i) ==
  IF f[i].parent = 0 THEN <<f[i].name>>
  ELSE Append(PathOf(f, f[i].parent), f[i].name)

\* the positions of the plan whose old_path is path
ItemsOf(plan, path) == {k \in 1..Len(plan) : plan[k][1] = path}

\* collect_renames has just returned the plan of a run, simulated or not:
\* to_rename is that plan, fs_pre the tree it was made of
PlanMade == pc = "renaming" /\ idx = 1

DestinationExists ==
  /\ pc = "renaming"
  /\ ~dry_run
  /\ idx <= Len(to_rename)
  /\ Resolve(fs, to_rename[idx][1]) # {}
  /\ Resolve(fs, to_rename[idx][2]) # {}
  /\ Resolve(fs, to_rename[idx][2]) # Resolve(fs, to_rename[idx][1])

\* C13: an item whose new_path exists as another entry is a failed rename:
\* the tree and the log stay as they are and the run goes on with the next
\* item; so every entry of the tree the run started from is still there
\* throughout the run.
C13_ExistingDestinationFails ==
  /\ [](pc = "renaming" => \A i \in Live(fs_pre) : i \in Live(fs))
  /\ [][DestinationExists =>
          /\ fs' = fs
          /\ rename_log' = rename_log
          /\ pc' = "renaming"
          /\ idx' = idx + 1]_vars

\* the running invocation is the undo of the log of the real run that came
\* right before it, and the plan of that run had no collision
UndoOfCleanPlan ==
  /\ pc = "undoing"
  /\ last = "run"
  /\ NoCollision(fs_pre, collect_renames(fs_pre, <<>>))

\* C15: in the undo of the log of a real run without collisions, whichever
\* renames of the run had failed, every step finds its new_path in the tree
\* when it is taken, no step fails, and at the end every entry of the log
\* is at its old_path, the entry that was there before the run.
C15_UndoStepsSucceed ==
  UndoOfCleanPlan =>
    /\ idx <= Len(rename_log) => Resolve(fs, reversed(rename_log)[idx][1]) # {}
    /\ \A k \in 1..Len(calls) : calls[k].ok
    /\ UndoDone =>
         \A k \in 1..Len(rename_log) :
           /\ Resolve(fs, rename_log[k][2]) # {}
           /\ Resolve(fs, rename_log[k][2]) = Resolve(fs_pre, rename_log[k][2])

\* C15 witness: such an undo has ended; in the run a rename had failed (the
\* log is shorter than the plan) and two had succeeded, of a directory and
\* of an entry inside it.
C15_Witness ==
  /\ UndoOfCleanPlan
  /\ UndoDone
  /\ Len(rename_log) < Len(collect_renames(fs_pre, <<>>))
  /\ \E i, j \in 1..Len(rename_log) :
       /\ IsProperPrefix(rename_log[j][2], rename_log[i][2])
       /\ rename_log[i][1] # rename_log[i][2]
       /\ rename_log[j][1] # rename_log[j][2]

\* C16: in the plan all file items come before all directory items: no
\* directory item precedes a file item.
C16_FilesBeforeDirectories ==
  PlanMade =>
    \A i, j \in 1..Len(to_rename) :
      (KindAt(fs_pre, to_rename[i][1]) = "dir"
         /\ KindAt(fs_pre, to_rename[j][1]) = "file")
        => j < i

\* item j of the plan is that of a directory beneath the directory of item i
SubdirectoryItem(i, j) ==
  /\ IsProperPrefix(to_rename[i][1], to_rename[j][1])
  /\ KindAt(fs_pre, to_rename[i][1]) = "dir"
  /\ KindAt(fs_pre, to_rename[j][1]) = "dir"

\* C17 as stated: the directory items of the plan are shallow-first: the
\* item of a directory comes before the item of each of its subdirectories.
C17_ShallowFirst ==
  PlanMade =>
    \A i, j \in 1..Len(to_rename) : SubdirectoryItem(i, j) => i < j

\* C17: the directory items of the plan are deep-first: the item of a
\* directory comes after the item of each of its subdirectories.
C17_DeepFirst ==
  PlanMade =>
    \A i, j \in 1..Len(to_rename) : SubdirectoryItem(i, j) => j < i

\* C17 witness: a plan with the items of a directory, of a directory in it
\* and of a directory in that one.
C17_Witness ==
  /\ PlanMade
  /\ \E i, j, k \in 1..Len(to_rename) :
       SubdirectoryItem(i, j) /\ SubdirectoryItem(j, k)

\* C18: every item (old_path, new_path) of the plan has an old_path that is
\* the path of an entry of the tree the plan was made of, and a new_path
\* that is the directory of old_path, under the name it has in that tree,
\* joined with get_new_name of the last component of old_path; and in a run
\* every entry stays in the directory it was in.
C18_SameDirectory ==
  /\ PlanMade =>
       \A k \in 1..Len(to_rename) :
         LET old_path == to_rename[k][1]
             new_path == to_rename[k][2]
         IN /\ old_path # <<>>
            /\ Resolve(fs_pre, old_path) # {}
            /\ new_path = SubSeq(old_path, 1, Len(old_path) - 1)
                            \o <<get_new_name(old_path[Len(old_path)])>>
  /\ pc = "renaming" =>
       \A i \in Live(fs) : fs[i].parent = fs_pre[i].parent

\* C18 witness: the loop of a real run has ended; an entry two directories
\* below the root was renamed, and so was the directory it is in.
C18_Witness ==
  /\ RunDone
  /\ \E k, m \in 1..Len(calls) :
       /\ calls[k].ok /\ calls[k].src # calls[k].dst /\ Len(calls[k].src) = 3
       /\ calls[m].ok /\ calls[m].src # calls[m].dst
       /\ calls[m].src = SubSeq(calls[k].src, 1, 2)

\* C19: a dry run leaves the saved log as it is: what an undo would load
\* after the dry run is what it would have loaded before it, so that a real
\* run followed by a dry run and an undo has its renames undone.
C19_DryRunKeepsLog ==
  [][(pc = "renaming" /\ dry_run)
       => load_rename_log(log_file') = load_rename_log(log_file)]_vars

\* the loop of rename_recursively over a plan (lines 90-91), not simulated:
\* the tree and the log it ends with
RECURSIVE rename_all(_, _, _, _)
rename_all(f, imm, plan, log) ==
  IF plan = <<>> THEN [fs |-> f, rename_log |-> log]
  ELSE LET r == rename_entry(f, imm, Head(plan)[1], Head(plan)[2], FALSE, log)
       IN rename_all(r.fs, imm, Tail(plan), r.rename_log)

\* the loop of a real run has ended, no rename of it failed and its plan had
\* no collision
CleanRunDone ==
  /\ RunDone
  /\ \A k \in 1..Len(calls) : calls[k].ok
  /\ NoCollision(fs_pre, to_rename)

\* C20: a real run is idempotent on the tree: after a run in which no
\* rename failed or collided, every item of the plan of a second run has
\* new_path = old_path, and the second run leaves the tree as the first run
\* left it.  (A run ends with the tree the loop over its plan gives.)
C20_SecondRunChangesNothing ==
  /\ RunDone => fs = rename_all(fs_pre, immutable, to_rename, <<>>).fs
  /\ CleanRunDone =>
       LET second == collect_renames(fs, <<>>)
       IN /\ \A k \in 1..Len(second) : second[k][2] = second[k][1]
          /\ rename_all(fs, immutable, second, <<>>).fs = fs
          /\ Len(rename_all(fs, immutable, second, <<>>).rename_log) = Len(second)

\* C20 witness: such a run has ended, having renamed a directory and an
\* entry inside it; the plan of a second run is not empty.
C20_Witness ==
  /\ CleanRunDone
  /\ collect_renames(fs, <<>>) # <<>>
  /\ \E k, m \in 1..Len(calls) :
       /\ calls[k].src # calls[k].dst
       /\ calls[m].src # calls[m].dst
       /\ IsProperPrefix(calls[m].src, calls[k].src)

(***************************************************************************)
(* Further properties of the normaliser, checked under NameSpec.           *)
(***************************************************************************)
\* C14: the name get_new_name returns holds no space, no underscore and no
\* upper-case character, so should_rename of it is false.  (Stated for the
\* names a directory can hold, those without a separator.)
C14_ResultNormalised ==
  (outs # <<>> /\ ~Contains(nm, "/")) =>
    /\ ~Contains(outs[1], " ")
    /\ ~Contains(outs[1], "_")
    /\ outs[1] = Lower(outs[1])
    /\ ~should_rename(outs[1])

====
